---- MODULE Spec2Model ----
(***************************************************************************)
(* A model of cfel_cxi.py: the CXIWriter class and its _Stack helper.      *)
(*                                                                         *)
(* One CXIWriter instance is modelled.  Its fields are the variables; each *)
(* public method is one action, and an action is the whole method call:    *)
(* the exception it raises (or "none") is left in the variable raised.  A  *)
(* method that raises half-way keeps the assignments it made before the    *)
(* raise, as in Python.                                                    *)
(*                                                                         *)
(* The values of raised: every RuntimeError of the module is named by what *)
(* its message reports (UnsupportedValueKind, LifecycleViolation,          *)
(* DuplicatePath, UnknownSeries, DoubleAppend, TypeMismatch, ShapeMismatch,*)
(* CapacityExhausted, PendingDataOnFinalize); AttributeError is Python's   *)
(* own; EngineError is any exception raised inside an h5py call.           *)
(*                                                                         *)
(* The h5py file is modelled at the level of the calls the module makes on *)
(* it: create_dataset, "in", del, indexed assignment, resize, close.  A    *)
(* dataset cannot be created at a path that is taken, a position can be    *)
(* assigned only inside the leading axis and with a value that broadcasts  *)
(* to it, only a chunked dataset can be resized, and only up to its        *)
(* maxshape.  Paths are flat names.  dict iteration is in insertion order. *)
(*                                                                         *)
(* Three variables are history, not fields of the writer: commits counts   *)
(* the commits that returned, entry_writes how often each queued entry has *)
(* been written, stack_values what each stack was given to store.  No      *)
(* action reads them in a guard.                                           *)
(***************************************************************************)
EXTENDS Integers, Sequences, FiniteSets, TLC

(* ---------------------------------------------------------------------- *)
(* Bounds of the model                                                     *)
(* ---------------------------------------------------------------------- *)

\* largest max_num_slices a writer is constructed with
MaxCapacity == 3

\* longest queue of pending simple entries: write_entry is not called on
\* an uninitialized writer whose queue is this long
MaxQueue == 2

\* initialize_stacks is not called any more once _curr_slice exceeds
\* max_num_slices by this much (a failing initialize_stacks can be repeated
\* for ever, and each repetition may add one to _curr_slice)
MaxOverrun == 1

(* ---------------------------------------------------------------------- *)
(* Values                                                                  *)
(* ---------------------------------------------------------------------- *)

\* A Python value: kind is type(data), shape is data.shape for a
\* numpy.ndarray, val tells two values of one type apart.
PyInt(v) == [kind |-> "int", shape |-> <<>>, val |-> v]

PyStr(v) == [kind |-> "str", shape |-> <<>>, val |-> v]

NdArray(s, v) == [kind |-> "ndarray", shape |-> s, val |-> v]

PyList(v) == [kind |-> "list", shape |-> <<>>, val |-> v]

\* Python's None
None == [kind |-> "None", shape |-> <<>>, val |-> 0]

\* the fill value of a dataset position nothing was written to
Fill == [kind |-> "fill", shape |-> <<>>, val |-> 0]

Names == {"a", "b"}

Paths == {"p", "q"}

\* the calls of add_stack_to_writer: <<name, path, initial_data, overwrite>>.
\* The stacks of the model are stacks of 2 x 2 arrays; a list is a value
\* the writer refuses.
StackCalls ==
    {<<n, p, NdArray(<<2, 2>>, 1), o>> : n \in Names, p \in Paths, o \in BOOLEAN}
        \cup {<<"a", "p", PyList(1), TRUE>>}

\* the calls of append_to_stack: <<name, data>>, with two arrays of the
\* stacks' shape, an array of another shape, a value of another type and a
\* value the writer refuses
AppendCalls ==
    {<<n, d>> : n \in Names,
                d \in {NdArray(<<2, 2>>, 1), NdArray(<<2, 2>>, 2),
                       NdArray(<<3, 2>>, 1), PyStr(1)}}
        \cup {<<"a", PyList(1)>>}

\* the calls of write_entry: <<path, data, overwrite>>, all at one path,
\* which is also a path of stacks
EntryCalls ==
    {<<"p", PyInt(1), FALSE>>, <<"p", NdArray(<<2, 2>>, 1), TRUE>>,
     <<"p", PyList(1), FALSE>>}

VARIABLES
    cxi_stacks,              \* self._cxi_stacks: sequence of stacks, in dict order
    pending_simple_entries,  \* self._pending_simple_entries
    initialized,             \* self._initialized
    curr_slice,              \* self._curr_slice
    max_num_slices,          \* self._max_num_slices
    file_is_open,            \* self._file_is_open
    fh,                      \* self._fh: path -> dataset
    raised,                  \* the exception the last call raised, or "none"
    commits,                 \* number of calls of write_stack_slice_and_increment that returned
    entry_writes,            \* per entry queued by write_entry, in queue order: how often
                             \* _write_simple_entry has created its dataset
    stack_values             \* per stack name: the initial value it was registered with,
                             \* then the value pending at each
                             \* write_stack_slice_and_increment that returned

vars == <<cxi_stacks, pending_simple_entries, initialized, curr_slice,
          max_num_slices, file_is_open, fh, raised, commits, entry_writes,
          stack_values>>

\* the fields of the writer and the file
writer == <<cxi_stacks, pending_simple_entries, initialized, curr_slice,
            max_num_slices, file_is_open, fh>>

(* ---------------------------------------------------------------------- *)
(* The h5py file                                                           *)
(* ---------------------------------------------------------------------- *)

\* no dataset at a path
Absent == [exists |-> FALSE, chunked |-> FALSE, shape |-> <<>>, maxlen |-> 0,
           value |-> None, slices |-> <<>>]

\* numpy.asarray(data).shape
ArrayShape(data) == IF data.kind = "ndarray" THEN data.shape ELSE <<>>

\* create_dataset(path, shape=shape, maxshape=shape, chunks=...): a chunked
\* dataset of the given shape, every position holding the fill value
CreateEmpty(shape) ==
    [exists |-> TRUE, chunked |-> TRUE, shape |-> shape, maxlen |-> shape[1],
     value |-> None, slices |-> [i \in 1..shape[1] |-> Fill]]

\* create_dataset(path, data=data): a contiguous dataset holding data
CreateFromData(data) ==
    LET s == ArrayShape(data) IN
    [exists |-> TRUE, chunked |-> FALSE, shape |-> s,
     maxlen |-> IF s = <<>> THEN 0 ELSE s[1],
     value |-> data,
     slices |-> [i \in 1..(IF s = <<>> THEN 0 ELSE s[1]) |-> Fill]]

\* dataset[index] = data is accepted: the dataset has a leading axis that
\* holds index, and data is a number or an array that broadcasts to one
\* position of that axis
CanSetItem(ds, index, data) ==
    /\ ds.exists
    /\ ds.shape # <<>>
    /\ index < ds.shape[1]
    /\ data.kind \in {"int", "ndarray"}
    /\ \/ ArrayShape(data) = <<>>
       \/ ArrayShape(data) = Tail(ds.shape)

\* dataset[index] = data
SetItem(ds, index, data) == [ds EXCEPT !.slices[index + 1] = data]

\* dataset.resize(shape) is accepted: chunked, within maxshape
CanResize(ds, size) == ds.exists /\ ds.chunked /\ size <= ds.maxlen

\* dataset.resize((size,) + ...)
Resize(ds, size) ==
    [ds EXCEPT !.shape = <<size>> \o Tail(ds.shape),
               !.slices = [i \in 1..size |->
                              IF i <= Len(ds.slices) THEN ds.slices[i] ELSE Fill]]

(* ---------------------------------------------------------------------- *)
(* _Stack                                                                  *)
(* ---------------------------------------------------------------------- *)

\* the shape _Stack gives a value: (1,) for str, int and float, else data.shape
DataShape(data) ==
    IF data.kind \in {"str", "int", "float"} THEN <<1>> ELSE data.shape

\* _Stack.__init__ (name is the key the writer files the stack under)
Stack(name, path, data) ==
    [name |-> name, path |-> path, data_type |-> data.kind,
     data_shape |-> DataShape(data), data_to_write |-> data]

\* _Stack.write_initial_slice: the stack and the file afterwards, and the
\* exception raised.  create_dataset refuses a path that is taken.
write_initial_slice(stack, f, max) ==
    IF f[stack.path].exists
    THEN [stack |-> stack, fh |-> f, raised |-> "EngineError"]
    ELSE LET ds == CreateEmpty(<<max>> \o stack.data_shape)
             f1 == [f EXCEPT ![stack.path] = ds]
         IN  IF ~CanSetItem(ds, 0, stack.data_to_write)
             THEN [stack |-> stack, fh |-> f1, raised |-> "EngineError"]
             ELSE [stack |-> [stack EXCEPT !.data_to_write = None],
                   fh |-> [f1 EXCEPT ![stack.path] = SetItem(ds, 0, stack.data_to_write)],
                   raised |-> "none"]

\* write_slice writing one position too early: the variant C15 is checked
\* against
write_slice_previous_index(stack, f, slice) ==
    IF ~CanSetItem(f[stack.path], slice - 1, stack.data_to_write)
    THEN [stack |-> stack, fh |-> f, raised |-> "EngineError"]
    ELSE [stack |-> [stack EXCEPT !.data_to_write = None],
          fh |-> [f EXCEPT ![stack.path] = SetItem(f[stack.path], slice - 1, stack.data_to_write)],
          raised |-> "none"]

\* _Stack.write_slice
write_slice(stack, f, slice) ==
    IF ~CanSetItem(f[stack.path], slice, stack.data_to_write)
    THEN [stack |-> stack, fh |-> f, raised |-> "EngineError"]
    ELSE [stack |-> [stack EXCEPT !.data_to_write = None],
          fh |-> [f EXCEPT ![stack.path] = SetItem(f[stack.path], slice, stack.data_to_write)],
          raised |-> "none"]

\* append_data without the test for a pending value: the variant C5 is
\* checked against
append_data_overwrites(stack, data) ==
    IF data.kind # stack.data_type
    THEN [stack |-> stack, raised |-> "TypeMismatch"]
    ELSE IF DataShape(data) # stack.data_shape
    THEN [stack |-> stack, raised |-> "ShapeMismatch"]
    ELSE [stack |-> [stack EXCEPT !.data_to_write = data], raised |-> "none"]

\* append_data without the test of the shape: the variant C6 is checked
\* against
append_data_any_shape(stack, data) ==
    IF stack.data_to_write # None
    THEN [stack |-> stack, raised |-> "DoubleAppend"]
    ELSE IF data.kind # stack.data_type
    THEN [stack |-> stack, raised |-> "TypeMismatch"]
    ELSE [stack |-> [stack EXCEPT !.data_to_write = data], raised |-> "none"]

\* _Stack.append_data
append_data(stack, data) ==
    IF stack.data_to_write # None
    THEN [stack |-> stack, raised |-> "DoubleAppend"]
    ELSE IF data.kind # stack.data_type
    THEN [stack |-> stack, raised |-> "TypeMismatch"]
    ELSE IF DataShape(data) # stack.data_shape
    THEN [stack |-> stack, raised |-> "ShapeMismatch"]
    ELSE [stack |-> [stack EXCEPT !.data_to_write = data], raised |-> "none"]

\* finalize without the resize: the variant C3 is checked against
finalize_keeps_capacity(stack, f, slice) ==
    IF stack.data_to_write # None
    THEN [fh |-> f, raised |-> "PendingDataOnFinalize"]
    ELSE [fh |-> f, raised |-> "none"]

\* _Stack.finalize
finalize(stack, f, slice) ==
    IF stack.data_to_write # None
    THEN [fh |-> f, raised |-> "PendingDataOnFinalize"]
    ELSE IF ~CanResize(f[stack.path], slice)
    THEN [fh |-> f, raised |-> "EngineError"]
    ELSE [fh |-> [f EXCEPT ![stack.path] = Resize(f[stack.path], slice)],
          raised |-> "none"]

\* _validate_data: the value is a str, an int, a float or a numpy.ndarray
validate_data(data) == data.kind \in {"str", "int", "float", "ndarray"}

(* ---------------------------------------------------------------------- *)
(* CXIWriter                                                               *)
(* ---------------------------------------------------------------------- *)

\* name in self._cxi_stacks
HasStack(stacks, name) == \E i \in 1..Len(stacks) : stacks[i].name = name

\* the position of self._cxi_stacks[name]
StackIndex(stacks, name) == CHOOSE i \in 1..Len(stacks) : stacks[i].name = name

\* add_stack_to_writer without the del: the variant C14 is checked against
DelStack_keeps_old(stacks, name) == stacks

\* del self._cxi_stacks[name]
DelStack(stacks, name) == SelectSeq(stacks, LAMBDA s : s.name # name)

SimpleEntry(path, data, overwrite) ==
    [path |-> path, data |-> data, overwrite |-> overwrite]

\* CXIWriter.__init__
Init ==
    /\ cxi_stacks = <<>>
    /\ pending_simple_entries = <<>>
    /\ initialized = FALSE
    /\ curr_slice = 0
    /\ max_num_slices \in 1..MaxCapacity
    /\ file_is_open = TRUE
    /\ fh = [p \in Paths |-> Absent]
    /\ raised = "none"
    /\ commits = 0
    /\ entry_writes = <<>>
    /\ stack_values = [n \in Names |-> <<>>]

\* a call that raises before it changes anything
Raise(exception) ==
    /\ raised' = exception
    /\ UNCHANGED <<writer, commits, entry_writes, stack_values>>

\* _write_simple_entry deleting whatever is at the path, overwrite set or
\* not: the variant C12 is checked against
write_simple_entry_always_replaces(entry, f, open) ==
    IF ~open
    THEN [fh |-> f, raised |-> "EngineError"]
    ELSE [fh |-> [f EXCEPT ![entry.path] = CreateFromData(entry.data)],
          raised |-> "none"]

\* CXIWriter._write_simple_entry: the file afterwards and the exception
\* raised.  Nothing can be created in a file that is closed.
write_simple_entry(entry, f, open) ==
    IF ~open
    THEN [fh |-> f, raised |-> "EngineError"]
    ELSE IF f[entry.path].exists /\ ~entry.overwrite
    THEN [fh |-> f, raised |-> "DuplicatePath"]
    ELSE [fh |-> [f EXCEPT ![entry.path] = CreateFromData(entry.data)],
          raised |-> "none"]

\* add_stack_to_writer without the test of _initialized: the variant C8 is
\* checked against
add_stack_to_writer_any_phase(name, path, initial_data, overwrite) ==
    IF ~validate_data(initial_data)
    THEN Raise("UnsupportedValueKind")
    ELSE IF HasStack(cxi_stacks, name) /\ ~overwrite
    THEN Raise("DuplicatePath")
    ELSE /\ cxi_stacks' = Append(DelStack(cxi_stacks, name), Stack(name, path, initial_data))
         /\ stack_values' = [stack_values EXCEPT ![name] = <<initial_data>>]
         /\ raised' = "none"
         /\ UNCHANGED <<pending_simple_entries, initialized, curr_slice,
                        max_num_slices, file_is_open, fh, commits, entry_writes>>

\* CXIWriter.add_stack_to_writer
add_stack_to_writer(name, path, initial_data, overwrite) ==
    IF ~validate_data(initial_data)
    THEN Raise("UnsupportedValueKind")
    ELSE IF initialized
    THEN Raise("LifecycleViolation")
    ELSE IF HasStack(cxi_stacks, name) /\ ~overwrite
    THEN Raise("DuplicatePath")
    ELSE /\ cxi_stacks' = Append(DelStack(cxi_stacks, name), Stack(name, path, initial_data))
         /\ stack_values' = [stack_values EXCEPT ![name] = <<initial_data>>]
         /\ raised' = "none"
         /\ UNCHANGED <<pending_simple_entries, initialized, curr_slice,
                        max_num_slices, file_is_open, fh, commits, entry_writes>>

\* CXIWriter.write_entry
write_entry(path, data, overwrite) ==
    IF ~validate_data(data)
    THEN Raise("UnsupportedValueKind")
    ELSE IF ~initialized
    THEN /\ Len(pending_simple_entries) < MaxQueue
         /\ pending_simple_entries' =
                Append(pending_simple_entries, SimpleEntry(path, data, overwrite))
         /\ entry_writes' = Append(entry_writes, 0)
         /\ raised' = "none"
         /\ UNCHANGED <<cxi_stacks, initialized, curr_slice, max_num_slices,
                        file_is_open, fh, commits, stack_values>>
    ELSE LET r == write_simple_entry(SimpleEntry(path, data, overwrite), fh, file_is_open)
         IN  /\ fh' = r.fh
             /\ raised' = r.raised
             /\ UNCHANGED <<cxi_stacks, pending_simple_entries, initialized, curr_slice,
                            max_num_slices, file_is_open, commits, entry_writes,
                            stack_values>>

\* initialize_stacks, the first loop: write_initial_slice on every stack in
\* turn, from position i on, stopping at the first exception
RECURSIVE InitialSlices(_, _, _, _)
InitialSlices(stacks, f, max, i) ==
    IF i > Len(stacks)
    THEN [stacks |-> stacks, fh |-> f, raised |-> "none"]
    ELSE LET r == write_initial_slice(stacks[i], f, max)
             s1 == [stacks EXCEPT ![i] = r.stack]
         IN  IF r.raised # "none"
             THEN [stacks |-> s1, fh |-> r.fh, raised |-> r.raised]
             ELSE InitialSlices(s1, r.fh, max, i + 1)

\* the second loop taking the queue from its newest entry to its oldest: the
\* variant C11 is checked against
RECURSIVE FlushEntries_newest_first(_, _, _, _)
FlushEntries_newest_first(entries, f, open, i) ==
    IF i > Len(entries)
    THEN [fh |-> f, raised |-> "none", written |-> i - 1]
    ELSE LET r == write_simple_entry(entries[Len(entries) + 1 - i], f, open)
         IN  IF r.raised # "none"
             THEN [fh |-> r.fh, raised |-> r.raised, written |-> i - 1]
             ELSE FlushEntries_newest_first(entries, r.fh, open, i + 1)

\* initialize_stacks, the second loop: _write_simple_entry on every queued
\* entry in turn, from position i on, stopping at the first exception
RECURSIVE FlushEntries(_, _, _, _)
FlushEntries(entries, f, open, i) ==
    IF i > Len(entries)
    THEN [fh |-> f, raised |-> "none", written |-> i - 1]
    ELSE LET r == write_simple_entry(entries[i], f, open)
         IN  IF r.raised # "none"
             THEN [fh |-> r.fh, raised |-> r.raised, written |-> i - 1]
             ELSE FlushEntries(entries, r.fh, open, i + 1)

\* CXIWriter.initialize_stacks
initialize_stacks ==
    IF ~file_is_open
    THEN Raise("LifecycleViolation")
    ELSE IF initialized
    THEN Raise("LifecycleViolation")
    ELSE LET r1 == InitialSlices(cxi_stacks, fh, max_num_slices, 1)
             r2 == FlushEntries(pending_simple_entries, r1.fh, file_is_open, 1)
         IN  /\ curr_slice < max_num_slices + MaxOverrun
             /\ cxi_stacks' = r1.stacks
             /\ UNCHANGED <<max_num_slices, file_is_open, commits, stack_values>>
             /\ IF r1.raised # "none"
                THEN /\ fh' = r1.fh
                     /\ raised' = r1.raised
                     /\ UNCHANGED <<curr_slice, pending_simple_entries, initialized,
                                    entry_writes>>
                ELSE /\ curr_slice' = curr_slice + 1
                     /\ fh' = r2.fh
                     /\ raised' = r2.raised
                     /\ entry_writes' = [k \in 1..Len(entry_writes) |->
                            IF k <= r2.written THEN entry_writes[k] + 1
                                               ELSE entry_writes[k]]
                     /\ IF r2.raised # "none"
                        THEN UNCHANGED <<pending_simple_entries, initialized>>
                        ELSE /\ pending_simple_entries' = <<>>
                             /\ initialized' = TRUE

\* CXIWriter.append_to_stack
append_to_stack(name, data) ==
    IF ~validate_data(data)
    THEN Raise("UnsupportedValueKind")
    ELSE IF ~initialized
    THEN Raise("LifecycleViolation")
    ELSE IF ~HasStack(cxi_stacks, name)
    THEN Raise("UnknownSeries")
    ELSE LET i == StackIndex(cxi_stacks, name)
             r == append_data(cxi_stacks[i], data)
         IN  /\ cxi_stacks' = [cxi_stacks EXCEPT ![i] = r.stack]
             /\ raised' = r.raised
             /\ UNCHANGED <<pending_simple_entries, initialized, curr_slice,
                            max_num_slices, file_is_open, fh, commits, entry_writes,
                            stack_values>>

\* write_stack_slice_and_increment, the first loop: some stack has nothing
\* to write
SliceIncomplete(stacks) ==
    \E i \in 1..Len(stacks) : stacks[i].data_to_write = None

\* what the raise statement of the first loop raises: building the
\* RuntimeError reads entry.path, and a _Stack has _path but no path
IncompleteSliceError == "AttributeError"

\* write_stack_slice_and_increment, the second loop: write_slice on every
\* stack in turn, from position i on, stopping at the first exception
RECURSIVE WriteSlices(_, _, _, _)
WriteSlices(stacks, f, slice, i) ==
    IF i > Len(stacks)
    THEN [stacks |-> stacks, fh |-> f, raised |-> "none"]
    ELSE LET r == write_slice(stacks[i], f, slice)
             s1 == [stacks EXCEPT ![i] = r.stack]
         IN  IF r.raised # "none"
             THEN [stacks |-> s1, fh |-> r.fh, raised |-> r.raised]
             ELSE WriteSlices(s1, r.fh, slice, i + 1)

\* no test for a full file at all: the variant C17 is checked against
CapacityReached_never == FALSE

\* the test for a full file with > for >=: the variant C4 is checked against
CapacityReached_off_by_one == curr_slice > max_num_slices

\* write_stack_slice_and_increment, the test for a full file
CapacityReached == curr_slice >= max_num_slices

\* CXIWriter.write_stack_slice_and_increment
write_stack_slice_and_increment ==
    IF ~file_is_open
    THEN Raise("LifecycleViolation")
    ELSE IF ~initialized
    THEN Raise("LifecycleViolation")
    ELSE IF CapacityReached
    THEN Raise("CapacityExhausted")
    ELSE IF SliceIncomplete(cxi_stacks)
    THEN Raise(IncompleteSliceError)
    ELSE LET r == WriteSlices(cxi_stacks, fh, curr_slice, 1)
         IN  /\ cxi_stacks' = r.stacks
             /\ fh' = r.fh
             /\ raised' = r.raised
             /\ curr_slice' = IF r.raised = "none" THEN curr_slice + 1 ELSE curr_slice
             /\ commits' = IF r.raised = "none" THEN commits + 1 ELSE commits
             /\ stack_values' =
                    IF r.raised = "none"
                    THEN [n \in Names |->
                            IF HasStack(cxi_stacks, n)
                            THEN Append(stack_values[n],
                                        cxi_stacks[StackIndex(cxi_stacks, n)].data_to_write)
                            ELSE stack_values[n]]
                    ELSE stack_values
             /\ UNCHANGED <<pending_simple_entries, initialized, max_num_slices,
                            file_is_open, entry_writes>>

\* CXIWriter.get_file_handle
get_file_handle ==
    IF ~file_is_open
    THEN Raise("LifecycleViolation")
    ELSE Raise("none")

\* close_file, the loop: finalize on every stack in turn, from position i
\* on, stopping at the first exception
RECURSIVE FinalizeStacks(_, _, _, _)
FinalizeStacks(stacks, f, slice, i) ==
    IF i > Len(stacks)
    THEN [fh |-> f, raised |-> "none"]
    ELSE LET r == finalize(stacks[i], f, slice)
         IN  IF r.raised # "none"
             THEN r
             ELSE FinalizeStacks(stacks, r.fh, slice, i + 1)

\* close_file that also clears _initialized when it succeeds: the variant C7
\* is checked against
close_file_resets_initialized ==
    IF ~file_is_open
    THEN Raise("LifecycleViolation")
    ELSE LET r == FinalizeStacks(cxi_stacks, fh, curr_slice, 1)
         IN  /\ fh' = r.fh
             /\ raised' = r.raised
             /\ file_is_open' = (r.raised # "none")
             /\ initialized' = (initialized /\ r.raised # "none")
             /\ UNCHANGED <<cxi_stacks, pending_simple_entries,
                            curr_slice, max_num_slices, commits, entry_writes,
                            stack_values>>

\* CXIWriter.close_file
close_file ==
    IF ~file_is_open
    THEN Raise("LifecycleViolation")
    ELSE LET r == FinalizeStacks(cxi_stacks, fh, curr_slice, 1)
         IN  /\ fh' = r.fh
             /\ raised' = r.raised
             /\ file_is_open' = (r.raised # "none")
             /\ UNCHANGED <<cxi_stacks, pending_simple_entries, initialized,
                            curr_slice, max_num_slices, commits, entry_writes,
                            stack_values>>

Next ==
    \/ \E c \in StackCalls : add_stack_to_writer(c[1], c[2], c[3], c[4])
    \/ \E c \in EntryCalls : write_entry(c[1], c[2], c[3])
    \/ initialize_stacks
    \/ \E c \in AppendCalls : append_to_stack(c[1], c[2])
    \/ write_stack_slice_and_increment
    \/ get_file_handle
    \/ close_file

Spec == Init /\ [][Next]_vars

(* ---------------------------------------------------------------------- *)
(* The states of the writer's lifecycle, and what is on disk               *)
(* ---------------------------------------------------------------------- *)

OpenUninitialized == file_is_open /\ ~initialized

Initialized == file_is_open /\ initialized

Closed == ~file_is_open

\* the dataset the file holds at the path of a stack
DatasetOf(stack) == fh[stack.path]

\* the number of positions of a stack's dataset that were written
WrittenCount(stack) ==
    Cardinality({i \in DOMAIN DatasetOf(stack).slices : DatasetOf(stack).slices[i] # Fill})

\* the length of the leading axis of a stack's dataset
LeadingLength(stack) ==
    IF DatasetOf(stack).shape = <<>> THEN 0 ELSE DatasetOf(stack).shape[1]

\* every stack has something to write
AllPending == \A i \in 1..Len(cxi_stacks) : cxi_stacks[i].data_to_write # None

(* ---------------------------------------------------------------------- *)
(* C1                                                                      *)
(* ---------------------------------------------------------------------- *)

\* C1: in the Initialized state with the slice counter below the capacity,
\* when some registered stack has nothing to write,
\* write_stack_slice_and_increment raises the incomplete-slice error and
\* changes nothing: no stack is written, every pending value stays, the
\* slice counter stays.
C1_IncompleteSliceRejected ==
    [][(/\ Initialized
        /\ curr_slice < max_num_slices
        /\ SliceIncomplete(cxi_stacks)
        /\ write_stack_slice_and_increment)
       => (raised' = "IncompleteSlice" /\ UNCHANGED <<writer, commits>>)]_vars

(* ---------------------------------------------------------------------- *)
(* C2                                                                      *)
(* ---------------------------------------------------------------------- *)

\* C2: in every reachable state all registered stacks have the same number
\* of written elements, and once initialize_stacks has succeeded that
\* number is the slice counter.
C2_LengthAlignment ==
    /\ \A i, j \in 1..Len(cxi_stacks) :
           WrittenCount(cxi_stacks[i]) = WrittenCount(cxi_stacks[j])
    /\ initialized =>
           \A i \in 1..Len(cxi_stacks) : WrittenCount(cxi_stacks[i]) = curr_slice

(* ---------------------------------------------------------------------- *)
(* C3                                                                      *)
(* ---------------------------------------------------------------------- *)

\* C3 as claimed: after a successful initialize_stacks, N successful
\* write_stack_slice_and_increment calls and a successful close_file, the
\* leading axis of every stack's dataset has length N.
C3_FinalLengthIsCommits ==
    (Closed /\ initialized) =>
        \A i \in 1..Len(cxi_stacks) : LeadingLength(cxi_stacks[i]) = commits

\* C3 as amended: after a successful initialize_stacks, N successful
\* write_stack_slice_and_increment calls and a successful close_file, the
\* leading axis of every stack's dataset has length N + 1 (the initial value
\* at index 0 and the N slices), which is the slice counter and never more
\* than the capacity.
C3_FinalLengthIsCommitsPlusOne ==
    (Closed /\ initialized) =>
        \A i \in 1..Len(cxi_stacks) :
            /\ DatasetOf(cxi_stacks[i]).chunked
            /\ LeadingLength(cxi_stacks[i]) = commits + 1
            /\ LeadingLength(cxi_stacks[i]) = curr_slice
            /\ LeadingLength(cxi_stacks[i]) <= max_num_slices

\* C3 witness: a writer with two stacks closed after one slice, in a file
\* allocated for three: both datasets end with length two
C3_Witness ==
    /\ Closed
    /\ initialized
    /\ raised = "none"
    /\ commits = 1
    /\ max_num_slices = 3
    /\ Len(cxi_stacks) = 2
    /\ \A i \in 1..2 : LeadingLength(cxi_stacks[i]) = 2

(* ---------------------------------------------------------------------- *)
(* C4                                                                      *)
(* ---------------------------------------------------------------------- *)

\* C4: initialize_stacks leaves the slice counter at 1 when it succeeds; at
\* most max_num_slices - 1 calls of write_stack_slice_and_increment succeed;
\* a call made in the Initialized state with the slice counter at
\* max_num_slices raises the capacity error, whatever the stacks hold, and
\* changes nothing; and a file closed with the counter at max_num_slices
\* holds, for every stack, max_num_slices written positions.
C4_CapacityBoundary ==
    [][/\ (~initialized /\ initialized') => curr_slice' = 1
       /\ commits' <= max_num_slices' - 1
       /\ (Initialized /\ curr_slice = max_num_slices /\ write_stack_slice_and_increment)
              => (raised' = "CapacityExhausted" /\ UNCHANGED <<writer, commits>>)
       /\ (Closed' /\ initialized' /\ curr_slice' = max_num_slices')
              => \A i \in 1..Len(cxi_stacks') :
                     /\ LeadingLength(cxi_stacks[i])' = max_num_slices'
                     /\ WrittenCount(cxi_stacks[i])' = max_num_slices'
      ]_vars

\* C4 witness: the capacity error, in a file for three slices that holds
\* three, with both stacks holding a pending value
C4_Witness ==
    /\ Initialized
    /\ raised = "CapacityExhausted"
    /\ max_num_slices = 3
    /\ curr_slice = 3
    /\ commits = 2
    /\ Len(cxi_stacks) = 2
    /\ AllPending

(* ---------------------------------------------------------------------- *)
(* C5                                                                      *)
(* ---------------------------------------------------------------------- *)

\* the stack filed under a name
StackNamed(name) == cxi_stacks[StackIndex(cxi_stacks, name)]

\* C5: in the Initialized state, append_to_stack on a stack that holds a
\* pending value raises, whatever the value appended, and changes nothing:
\* the pending value, the other stacks, the slice counter and the file stay.
C5_DoubleAppendRejected ==
    [][Initialized =>
         \A c \in AppendCalls :
            (/\ HasStack(cxi_stacks, c[1])
             /\ StackNamed(c[1]).data_to_write # None
             /\ append_to_stack(c[1], c[2]))
            => (/\ raised' \in {"DoubleAppend", "UnsupportedValueKind"}
                /\ UNCHANGED <<writer, commits>>)]_vars

\* C5 witness: a second append was refused while the stack held a pending
\* value
C5_Witness ==
    /\ Initialized
    /\ raised = "DoubleAppend"
    /\ \E i \in 1..Len(cxi_stacks) : cxi_stacks[i].data_to_write # None

(* ---------------------------------------------------------------------- *)
(* C6                                                                      *)
(* ---------------------------------------------------------------------- *)

\* a value of a kind the writer accepts whose type or shape is not the one
\* the stack was created with
Mismatch(stack, data) ==
    /\ validate_data(data)
    /\ \/ data.kind # stack.data_type
       \/ DataShape(data) # stack.data_shape

\* C6 as claimed: in the Initialized state, append_to_stack with a value
\* whose type or shape differs from the stack's raises the type or shape
\* error and leaves the pending value as it was, whether the stack held a
\* pending value or not.
C6_MismatchRaisesMismatchError ==
    [][Initialized =>
         \A c \in AppendCalls :
            (/\ HasStack(cxi_stacks, c[1])
             /\ Mismatch(StackNamed(c[1]), c[2])
             /\ append_to_stack(c[1], c[2]))
            => (/\ raised' \in {"TypeMismatch", "ShapeMismatch"}
                /\ UNCHANGED <<writer, commits>>)]_vars

\* C6 as amended: in the Initialized state, append_to_stack with a value
\* whose type or shape differs from the stack's always raises and leaves the
\* pending value (and everything else) as it was; the error is the type
\* error or the shape error when the stack held no pending value, and the
\* double-append error when it held one.
C6_MismatchRejected ==
    [][Initialized =>
         \A c \in AppendCalls :
            (/\ HasStack(cxi_stacks, c[1])
             /\ Mismatch(StackNamed(c[1]), c[2])
             /\ append_to_stack(c[1], c[2]))
            => (/\ UNCHANGED <<writer, commits>>
                /\ IF StackNamed(c[1]).data_to_write # None
                   THEN raised' = "DoubleAppend"
                   ELSE IF c[2].kind # StackNamed(c[1]).data_type
                   THEN raised' = "TypeMismatch"
                   ELSE raised' = "ShapeMismatch")]_vars

\* C6 witness: an array of another shape was refused by a stack that held
\* no pending value
C6_Witness ==
    /\ Initialized
    /\ raised = "ShapeMismatch"
    /\ \E i \in 1..Len(cxi_stacks) : cxi_stacks[i].data_to_write = None

(* ---------------------------------------------------------------------- *)
(* C7                                                                      *)
(* ---------------------------------------------------------------------- *)

\* C7: the lifecycle never moves backward: once initialize_stacks has
\* succeeded the writer is never Open-Uninitialized again, and once
\* close_file has succeeded the file is never open again (so the writer is
\* never Open-Uninitialized or Initialized again).
C7_OneWayLifecycle ==
    [][/\ initialized => ~OpenUninitialized'
       /\ initialized => initialized'
       /\ Closed => Closed']_vars

\* C7 witness: a writer that was initialized and then closed, and was then
\* asked to initialize, write a slice, give the handle or close again
C7_Witness ==
    /\ Closed
    /\ initialized
    /\ raised = "LifecycleViolation"

(* ---------------------------------------------------------------------- *)
(* C8                                                                      *)
(* ---------------------------------------------------------------------- *)

\* C8: while the file is open, append_to_stack and
\* write_stack_slice_and_increment always raise before initialize_stacks
\* has succeeded, add_stack_to_writer and initialize_stacks always raise
\* after it has, and each of these calls leaves the stacks, the pending
\* values, the queue, the slice counter and the file as they were.
C8_PhaseGating ==
    [][/\ OpenUninitialized =>
            /\ \A c \in AppendCalls :
                   append_to_stack(c[1], c[2])
                   => (/\ raised' \in {"LifecycleViolation", "UnsupportedValueKind"}
                       /\ UNCHANGED <<writer, commits>>)
            /\ write_stack_slice_and_increment
                   => (raised' = "LifecycleViolation" /\ UNCHANGED <<writer, commits>>)
       /\ Initialized =>
            /\ \A c \in StackCalls :
                   add_stack_to_writer(c[1], c[2], c[3], c[4])
                   => (/\ raised' \in {"LifecycleViolation", "UnsupportedValueKind"}
                       /\ UNCHANGED <<writer, commits>>)
            /\ initialize_stacks
                   => (raised' = "LifecycleViolation" /\ UNCHANGED <<writer, commits>>)
      ]_vars

\* C8 witness: a call was refused for the phase while the file was open and
\* initialized, with a stack registered and no entry queued
C8_Witness ==
    /\ Initialized
    /\ raised = "LifecycleViolation"
    /\ Len(cxi_stacks) = 2

(* ---------------------------------------------------------------------- *)
(* C9                                                                      *)
(* ---------------------------------------------------------------------- *)

\* C9: once the file is closed every call raises and changes nothing of the
\* writer: add_stack_to_writer adds no stack, write_entry queues and writes
\* nothing, append_to_stack sets no pending value.
C9_ClosedIsTerminal ==
    [][Closed => (raised' # "none" /\ UNCHANGED <<writer, commits>>)]_vars

(* ---------------------------------------------------------------------- *)
(* C10                                                                     *)
(* ---------------------------------------------------------------------- *)

\* initialize_stacks did all of its work: every stack has its dataset with
\* the initial value at index 0 and nothing left to write, the slice counter
\* is 1, the queue is empty, the writer is initialized
FullyInitialized ==
    /\ initialized
    /\ curr_slice = 1
    /\ pending_simple_entries = <<>>
    /\ \A i \in 1..Len(cxi_stacks) : cxi_stacks[i].data_to_write = None

\* C10: initialize_stacks either does all of its work and returns, or raises
\* and leaves the writer and the file exactly as they were.
C10_AtomicInitialize ==
    [][initialize_stacks =>
         \/ (raised' = "none" /\ FullyInitialized')
         \/ (raised' # "none" /\ UNCHANGED <<writer, commits>>)]_vars

\* the positions of the queued entries that go to a path
EntriesAt(entries, path) == {k \in 1..Len(entries) : entries[k].path = path}

\* the queued entry that goes to a path last
LastEntryAt(entries, path) ==
    entries[CHOOSE k \in EntriesAt(entries, path) :
                \A j \in EntriesAt(entries, path) : j <= k]

\* C11: an entry handed to write_entry before initialize_stacks is put at the
\* end of the queue and the file is left as it is; an initialize_stacks that
\* returns leaves the queue empty and every path of a queued entry holding
\* the data of the entry queued for it last, which is what writing the queue
\* in its order gives.
C11_FifoFlush ==
    [][/\ OpenUninitialized =>
            \A c \in EntryCalls :
                (validate_data(c[2]) /\ write_entry(c[1], c[2], c[3]))
                => (/\ fh' = fh
                    /\ pending_simple_entries' =
                           Append(pending_simple_entries, SimpleEntry(c[1], c[2], c[3])))
       /\ (OpenUninitialized /\ initialize_stacks /\ raised' = "none")
            => (/\ pending_simple_entries' = <<>>
                /\ \A p \in Paths :
                       EntriesAt(pending_simple_entries, p) # {}
                       => fh'[p] = CreateFromData(LastEntryAt(pending_simple_entries, p).data))]_vars

\* C11: a writer whose initialize_stacks has written a queue of two entries
\* for the same path, the dataset holding the array of the second one
C11_Witness ==
    /\ Initialized
    /\ raised = "none"
    /\ commits = 0
    /\ entry_writes = <<1, 1>>
    /\ pending_simple_entries = <<>>
    /\ fh["p"] = CreateFromData(NdArray(<<2, 2>>, 1))

\* a path is taken once initialize_stacks has allocated the stacks: by a
\* dataset of the file or by the dataset of a stack
TakenAfterAllocation(path) ==
    \/ fh[path].exists
    \/ \E i \in 1..Len(cxi_stacks) : cxi_stacks[i].path = path

\* how many entries of the queue a call of initialize_stacks has written:
\* the entries whose count went up, a prefix of the queue
WrittenNow == Cardinality({k \in 1..Len(entry_writes) : entry_writes'[k] = entry_writes[k] + 1})

\* a path is taken when initialize_stacks comes to queue entry k
TakenAt(k, path) ==
    \/ TakenAfterAllocation(path)
    \/ \E j \in 1..(k - 1) : pending_simple_entries[j].path = path

\* C12: writing an entry to a taken path without overwrite raises
\* DuplicatePath and leaves the data at the path as it is; with overwrite,
\* or to a free path, the path afterwards holds exactly the data of the
\* entry.  This holds for an entry written by write_entry on an initialized
\* writer and for every entry initialize_stacks takes from the queue: the
\* entries are written as long as each finds its path free or has overwrite
\* set, the first one that does not raises DuplicatePath, and a path then
\* holds the data of the last entry written to it, or what it held before.
C12_OverwriteSemantics ==
    [][/\ Initialized =>
            \A c \in EntryCalls :
                (validate_data(c[2]) /\ write_entry(c[1], c[2], c[3]))
                => IF fh[c[1]].exists /\ ~c[3]
                   THEN raised' = "DuplicatePath" /\ fh' = fh
                   ELSE /\ raised' = "none"
                        /\ fh' = [fh EXCEPT ![c[1]] = CreateFromData(c[2])]
       /\ (OpenUninitialized /\ initialize_stacks /\ curr_slice' = curr_slice + 1)
            => LET queue == pending_simple_entries
                   written == SubSeq(queue, 1, WrittenNow)
               IN  /\ \A k \in 1..WrittenNow :
                          /\ entry_writes'[k] = entry_writes[k] + 1
                          /\ TakenAt(k, queue[k].path) => queue[k].overwrite
                   /\ WrittenNow = Len(queue) => raised' = "none"
                   /\ WrittenNow < Len(queue)
                        => /\ raised' = "DuplicatePath"
                           /\ TakenAt(WrittenNow + 1, queue[WrittenNow + 1].path)
                           /\ ~queue[WrittenNow + 1].overwrite
                   /\ \A p \in Paths :
                          IF EntriesAt(written, p) # {}
                          THEN fh'[p] = CreateFromData(LastEntryAt(written, p).data)
                          ELSE /\ fh[p].exists => fh'[p] = fh[p]
                               /\ TakenAfterAllocation(p) => fh'[p].exists]_vars

\* C12: an initialized writer with no stack at path p, one entry written from
\* the queue, the array of a later write_entry with overwrite at p, and a
\* write_entry without overwrite just refused
C12_Witness ==
    /\ Initialized
    /\ raised = "DuplicatePath"
    /\ entry_writes = <<1>>
    /\ \A i \in 1..Len(cxi_stacks) : cxi_stacks[i].path # "p"
    /\ cxi_stacks # <<>>
    /\ fh["p"] = CreateFromData(NdArray(<<2, 2>>, 1))

\* some stack holds a value that no slice of the file has yet
SomePending == \E i \in 1..Len(cxi_stacks) : cxi_stacks[i].data_to_write # None

\* C13: on an initialized writer with the file open, close_file raises
\* PendingDataOnFinalize whenever some stack holds a pending value, and then
\* leaves the file open and every pending value in place; it returns only
\* when no stack holds one.
C13_NoSilentLossAtClose ==
    [][(Initialized /\ close_file)
       => IF SomePending
          THEN /\ raised' = "PendingDataOnFinalize"
               /\ file_is_open'
               /\ cxi_stacks' = cxi_stacks
          ELSE raised' = "none" => ~SomePending]_vars

\* the positions of the stacks registered under a name
StacksNamed(stacks, name) == {i \in 1..Len(stacks) : stacks[i].name = name}

\* C14: before initialize_stacks, add_stack_to_writer with a name that is
\* registered raises DuplicatePath and changes nothing when overwrite is not
\* set; with overwrite it leaves exactly one stack under the name, with the
\* new path and the new initial value, and every other stack as it was.  No
\* two stacks ever have the same name.
C14_ReRegistration ==
    [][/\ \A n \in Names : Cardinality(StacksNamed(cxi_stacks', n)) <= 1
       /\ OpenUninitialized =>
            \A c \in StackCalls :
                (/\ validate_data(c[3])
                 /\ HasStack(cxi_stacks, c[1])
                 /\ add_stack_to_writer(c[1], c[2], c[3], c[4]))
                => IF ~c[4]
                   THEN raised' = "DuplicatePath" /\ UNCHANGED <<writer, commits>>
                   ELSE /\ raised' = "none"
                        /\ Cardinality(StacksNamed(cxi_stacks', c[1])) = 1
                        /\ cxi_stacks'[StackIndex(cxi_stacks', c[1])] = Stack(c[1], c[2], c[3])
                        /\ Len(cxi_stacks') = Len(cxi_stacks)
                        /\ \A i \in 1..Len(cxi_stacks) :
                               cxi_stacks[i].name # c[1]
                               => \E j \in 1..Len(cxi_stacks') : cxi_stacks'[j] = cxi_stacks[i]]_vars

\* C14: two stacks registered, nothing written yet, and an
\* add_stack_to_writer without overwrite just refused for a name in use
C14_Witness ==
    /\ OpenUninitialized
    /\ curr_slice = 0
    /\ fh = [p \in Paths |-> Absent]
    /\ Len(cxi_stacks) = 2
    /\ raised = "DuplicatePath"

\* C15: a write_stack_slice_and_increment that returns puts the pending value
\* of every stack at the position of the slice counter, a position nothing
\* was written to before, and leaves every other position as it was; and
\* when close_file returns on an initialized writer, the dataset of every
\* stack is exactly the initial value followed by the value appended before
\* each commit, commits + 1 slices in all.
C15_SliceIndexMapping ==
    [][/\ (Initialized /\ write_stack_slice_and_increment /\ commits' = commits + 1)
            => \A i \in 1..Len(cxi_stacks) :
                   LET stack == cxi_stacks[i]
                   IN  /\ fh[stack.path].slices[curr_slice + 1] = Fill
                       /\ fh'[stack.path].slices =
                              [fh[stack.path].slices EXCEPT ![curr_slice + 1] = stack.data_to_write]
       /\ (Initialized /\ close_file /\ raised' = "none")
            => \A i \in 1..Len(cxi_stacks) :
                   LET stack == cxi_stacks[i]
                   IN  /\ Len(stack_values[stack.name]) = commits + 1
                       /\ fh'[stack.path].slices = stack_values[stack.name]]_vars

\* C15: a closed writer after two commits, a stack of which was registered
\* with array 1, then given array 2, then array 1, its dataset holding the
\* three in that order
C15_Witness ==
    /\ Closed
    /\ initialized
    /\ raised = "none"
    /\ commits = 2
    /\ \E i \in 1..Len(cxi_stacks) :
           /\ stack_values[cxi_stacks[i].name] =
                  <<NdArray(<<2, 2>>, 1), NdArray(<<2, 2>>, 2), NdArray(<<2, 2>>, 1)>>
           /\ DatasetOf(cxi_stacks[i]).slices = stack_values[cxi_stacks[i].name]

\* C16: no entry accepted into the queue is ever written more than once,
\* whatever the calls and however often initialize_stacks failed and was
\* called again, and once initialize_stacks has returned every one of them
\* has been written exactly once.
C16_ExactlyOnceEntries ==
    /\ \A k \in 1..Len(entry_writes) : entry_writes[k] <= 1
    /\ initialized => \A k \in 1..Len(entry_writes) : entry_writes[k] = 1

\* C17: the slice counter never decreases and changes only by one, in
\* initialize_stacks and in a write_stack_slice_and_increment that returns;
\* it is 0 as long as initialize_stacks has not been called; and once
\* initialize_stacks has returned it is at least 1 and at most
\* max_num_slices.
C17_SliceCounterBounds ==
    [][/\ curr_slice' \in {curr_slice, curr_slice + 1}
       /\ curr_slice' # curr_slice
            => \/ initialize_stacks
               \/ write_stack_slice_and_increment /\ raised' = "none"
       /\ (curr_slice = 0 /\ ~initialize_stacks) => curr_slice' = 0
       /\ initialized' => (1 <= curr_slice' /\ curr_slice' <= max_num_slices')]_vars

\* C17: a writer of three slices whose counter has reached 3 by
\* initialize_stacks and two commits, and a third commit just refused
C17_Witness ==
    /\ Initialized
    /\ max_num_slices = 3
    /\ curr_slice = 3
    /\ commits = 2
    /\ cxi_stacks = <<>>
    /\ raised = "CapacityExhausted"

\* C18: a close_file that raises PendingDataOnFinalize on an initialized
\* writer has changed nothing: no dataset is cut, the file is open, the slice
\* counter and the stacks are as before, so that the calls after it find the
\* writer as it was.
C18_FailedCloseChangesNothing ==
    [][(Initialized /\ close_file /\ raised' = "PendingDataOnFinalize")
       => UNCHANGED <<writer, commits>>]_vars

\* no value handed to append_to_stack waits for its commit
NothingAppendedPending == ~initialized \/ ~SomePending

\* C19: with the file open and no appended value waiting for its commit,
\* close_file returns and the file is closed; this includes a writer before
\* initialize_stacks, with or without stacks registered.
C19_CloseAlwaysPossible ==
    [][(file_is_open /\ NothingAppendedPending /\ close_file)
       => (raised' = "none" /\ ~file_is_open')]_vars

\* C20: once initialize_stacks has returned, every registered stack still
\* has the resizable dataset that write_initial_slice created for it, with
\* its first slice: no entry of write_entry, queued or written at once, has
\* deleted or replaced it.
C20_StackDatasetsProtected ==
    initialized
    => \A i \in 1..Len(cxi_stacks) :
           /\ DatasetOf(cxi_stacks[i]).exists
           /\ DatasetOf(cxi_stacks[i]).chunked
           /\ DatasetOf(cxi_stacks[i]).slices[1] # Fill

====
